---- MODULE Spec2Model ----
(***************************************************************************)
(* The escalator controller (pkg/controller/controller.go): the per-group  *)
(* scaling cycle scaleNodeGroup, the sweep RunOnce and the loop            *)
(* RunForever, as one state machine.  A cycle is modelled stage by stage;  *)
(* the local variables of scaleNodeGroup are state while a cycle runs.     *)
(***************************************************************************)
EXTENDS Integers, Sequences, FiniteSets, TLC

\* ------------------------------------------------------------------ bounds

\* Longest pod list the lister returns.
MaxPods == 1

\* Most timer firings RunForever takes before only the stop case is left.
MaxTicks == 1

\* ------------------------------------------------------- values and inputs

None == "none"

\* The keys of Controller.nodeGroups.
Groups == {"g1", "g2"}

\* Names of the nodes a lister can return.
NodeNames == {"n1", "n2"}

\* (cpu, memory) capacity of a node, in milli-units.
NodeCaps == {<<100, 100>>, <<0, 100>>, <<100, 0>>}

\* (cpu, memory) request of a pod, in milli-units.
PodKinds == {<<100, 0>>, <<29, 0>>, <<0, 200>>}

\* A v1.Node: its name, whether it carries the to-be-removed taint, its
\* allocatable capacity.
NodesNamed(n) == [name : {n}, toBeRemoved : BOOLEAN, cap : NodeCaps]

\* What Nodes.List() can return without error: nodes with distinct names.
NodeLists ==
    {<<>>}
    \cup {<<x>> : x \in NodesNamed("n1") \cup NodesNamed("n2")}
    \cup {<<x, y>> : x \in NodesNamed("n1"), y \in NodesNamed("n2")}

\* What Pods.List() can return without error.
PodLists == UNION {[1..k -> PodKinds] : k \in 0..MaxPods}

\* A NodeGroupOptions value.
NodeGroupOptions(min, max, dry, lower, upper, up, fast, slow, revival) ==
    [MinNodes |-> min, MaxNodes |-> max, DryMode |-> dry,
     TaintLowerCapacityThreshholdPercent |-> lower,
     TaintUpperCapacityThreshholdPercent |-> upper,
     ScaleUpThreshholdPercent |-> up,
     FastNodeRemovalRate |-> fast,
     SlowNodeRemovalRate |-> slow,
     FastNodeRevivalRate |-> revival]

\* The Opts a controller can be constructed with: the controller-wide DryMode
\* and the options of each node group.  The thresholds of the second group of
\* the first configuration are not monotonic; the first group of the second
\* configuration has a removal rate of zero, and its second group asks for
\* more nodes than a lister returns.
Configurations ==
    { [DryMode |-> FALSE,
       NodeGroups |->
           [g \in Groups |->
               IF g = "g1"
               THEN NodeGroupOptions(1, 2, FALSE, 15, 50, 100, 3, 1, 2)
               ELSE NodeGroupOptions(2, 2, TRUE, 150, 50, 60, 3, 1, 2)]],
      [DryMode |-> TRUE,
       NodeGroups |->
           [g \in Groups |->
               IF g = "g1"
               THEN NodeGroupOptions(1, 1, FALSE, 15, 50, 100, 2, 0, 1)
               ELSE NodeGroupOptions(3, 3, FALSE, 15, 50, 100, 3, 1, 2)]] }

\* ------------------------------------------------------------------- state

VARIABLES
    Opts,            \* Controller.Opts
    taintTracker,    \* NodeGroupState.taintTracker of every group
    stopChan,        \* TRUE once the stop channel is closed
    ticker,          \* "none", "running" or "stopped"
    tickerC,         \* TRUE while a firing waits in the ticker's channel
    runImmediately,  \* the argument of RunForever
    pc,              \* where RunForever is
    ticks,           \* timer firings RunForever has taken
    sweeps,          \* calls of RunOnce started
    iter,            \* RunOnce: the groups the range loop has not reached
    ran,             \* RunOnce: cycles that returned in this sweep, per group
    failed,          \* RunOnce: whether a cycle of this sweep ended at a guard
                     \* or with an error of its operation
    nodegroup,       \* scaleNodeGroup: the group of the running cycle
    stage,           \* scaleNodeGroup: the stage the cycle is at
    trail,           \* scaleNodeGroup: the stages the cycle has entered
    pods,            \* scaleNodeGroup locals, zero until assigned
    allNodes,
    untaintedNodes,
    taintedNodes,
    request,
    capacity,
    percent,
    maxPercent,
    nodesDelta,
    calls,           \* the mutation operations the cycle has invoked
    err,             \* whether the invoked operation returned an error
    emitted,         \* the metrics the cycle has set
    aborted          \* the guard the cycle returned at, None if none

loopVars == <<stopChan, ticker, tickerC, runImmediately, pc, ticks, sweeps>>
sweepVars == <<iter, ran, failed>>
cycleVars == <<nodegroup, stage, trail, pods, allNodes, untaintedNodes, taintedNodes,
               request, capacity, percent, maxPercent, nodesDelta, calls, err,
               emitted, aborted>>
vars == <<Opts, taintTracker, loopVars, sweepVars, cycleVars>>

\* ------------------------------------------------------- helper functions

\* dryMode as it would be if the controller-wide flag were forgotten.
dryMode_groupOnly(g) == Opts.NodeGroups[g].DryMode

\* Controller.dryMode: the overall dry mode of the controller and the group.
dryMode(g) == Opts.DryMode \/ Opts.NodeGroups[g].DryMode

\* k8s.GetToBeRemovedTaint: whether the node carries the to-be-removed taint.
GetToBeRemovedTaint(node) == node.toBeRemoved

\* The scan of nodeGroup.taintTracker for the node's name.
contains(g, node) == node.name \in taintTracker[g]

\* The test of the filter loop: the tracker in dry mode, the taint otherwise.
isTainted(g, node) ==
    IF dryMode(g) THEN contains(g, node) ELSE GetToBeRemovedTaint(node)

\* The filter loop: the nodes appended to untaintedNodes, in list order.
filterUntainted(g, nodes) == SelectSeq(nodes, LAMBDA n : ~isTainted(g, n))

\* filterTainted as it would be if the tainted list always went by the taint.
filterTainted_realTaint(g, nodes) ==
    SelectSeq(nodes, LAMBDA n : GetToBeRemovedTaint(n))

\* The filter loop: the nodes appended to taintedNodes, in list order.
filterTainted(g, nodes) == SelectSeq(nodes, LAMBDA n : isTainted(g, n))

\* outOfBounds as it would be without the guard on MaxNodes.
outOfBounds_noMax(g, nodes) ==
    \/ Len(nodes) = 0
    \/ Len(nodes) < Opts.NodeGroups[g].MinNodes

\* The guard that ends the cycle when the node count is outside the range.
outOfBounds(g, nodes) ==
    \/ Len(nodes) = 0
    \/ Len(nodes) < Opts.NodeGroups[g].MinNodes
    \/ Len(nodes) > Opts.NodeGroups[g].MaxNodes

RECURSIVE sumCpu(_)
sumCpu(s) == IF s = <<>> THEN 0 ELSE Head(s)[1] + sumCpu(Tail(s))

RECURSIVE sumMem(_)
sumMem(s) == IF s = <<>> THEN 0 ELSE Head(s)[2] + sumMem(Tail(s))

\* k8s.CalculatePodsRequestsTotal: the summed requests of the pods.
CalculatePodsRequestsTotal(ps) == [cpu |-> sumCpu(ps), mem |-> sumMem(ps)]

\* k8s.CalculateNodesCapacityTotal: the summed capacity of the nodes.
CalculateNodesCapacityTotal(nodes) ==
    LET caps == [i \in 1..Len(nodes) |-> nodes[i].cap]
    IN  [cpu |-> sumCpu(caps), mem |-> sumMem(caps)]

\* The float64 value float64(r) / float64(a) * 100, kept as its operands.
Quotient(r, a) == [r |-> r, a |-> a]

\* The operand pairs, among those the inputs can produce, whose float64
\* quotient times 100 lies just below the exact integer value.
RoundsBelow == {<<29, 100>>, <<58, 100>>, <<58, 200>>}

\* calcPercentUsage as it would be with && between the two zero tests.
calcPercentUsage_and(cpuR, memR, cpuA, memA) ==
    IF cpuA = 0 /\ memA = 0
    THEN [cpu |-> Quotient(0, 1), mem |-> Quotient(0, 1), err |-> TRUE]
    ELSE [cpu |-> Quotient(cpuR, cpuA), mem |-> Quotient(memR, memA),
          err |-> FALSE]

\* calcPercentUsage: an error when a capacity is zero, the two percentages
\* otherwise.
calcPercentUsage(cpuR, memR, cpuA, memA) ==
    IF cpuA = 0 \/ memA = 0
    THEN [cpu |-> Quotient(0, 1), mem |-> Quotient(0, 1), err |-> TRUE]
    ELSE [cpu |-> Quotient(cpuR, cpuA), mem |-> Quotient(memR, memA),
          err |-> FALSE]

\* math.Max on two percentages.
mathMax(x, y) == IF x.r * y.a < y.r * x.a THEN y ELSE x

\* int(f): the truncation of a float64 percentage.
toInt(x) ==
    LET q == (100 * x.r) \div x.a
    IN  IF <<x.r, x.a>> \in RoundsBelow THEN q - 1 ELSE q

\* decideDelta as it would be with the scale-up case before the scale-down
\* cases.
decideDelta_upFirst(o, usage) ==
    IF usage > o.ScaleUpThreshholdPercent
    THEN o.FastNodeRevivalRate
    ELSE IF usage < o.TaintLowerCapacityThreshholdPercent
    THEN -o.FastNodeRemovalRate
    ELSE IF usage < o.TaintUpperCapacityThreshholdPercent
    THEN -o.SlowNodeRemovalRate
    ELSE 0

\* decideDelta as it would be with the two scale-down cases in the other
\* order.
decideDelta_slowFirst(o, usage) ==
    IF usage < o.TaintUpperCapacityThreshholdPercent
    THEN -o.SlowNodeRemovalRate
    ELSE IF usage < o.TaintLowerCapacityThreshholdPercent
    THEN -o.FastNodeRemovalRate
    ELSE IF usage > o.ScaleUpThreshholdPercent
    THEN o.FastNodeRevivalRate
    ELSE 0

\* decideDelta as it would be with <= in the slow scale-down case.
decideDelta_inclusive(o, usage) ==
    IF usage < o.TaintLowerCapacityThreshholdPercent
    THEN -o.FastNodeRemovalRate
    ELSE IF usage <= o.TaintUpperCapacityThreshholdPercent
    THEN -o.SlowNodeRemovalRate
    ELSE IF usage > o.ScaleUpThreshholdPercent
    THEN o.FastNodeRevivalRate
    ELSE 0

\* The first switch: the delta of the first condition that is true.
decideDelta(o, usage) ==
    IF usage < o.TaintLowerCapacityThreshholdPercent
    THEN -o.FastNodeRemovalRate
    ELSE IF usage < o.TaintUpperCapacityThreshholdPercent
    THEN -o.SlowNodeRemovalRate
    ELSE IF usage > o.ScaleUpThreshholdPercent
    THEN o.FastNodeRevivalRate
    ELSE 0

\* The scaleOpts literal the three calls are made with.
scaleOpts(delta) ==
    [nodes |-> allNodes, taintedNodes |-> taintedNodes,
     untaintedNodes |-> untaintedNodes, pods |-> pods,
     nodeGroup |-> nodegroup, clusterUsagePercent |-> maxPercent,
     nodesDelta |-> delta]

\* dispatch as it would be if ScaleDown were handed the delta with its sign.
dispatch_signKept(delta) ==
    IF delta < 0 THEN [op |-> "ScaleDown", opts |-> scaleOpts(delta)]
    ELSE IF delta > 0 THEN [op |-> "ScaleUp", opts |-> scaleOpts(delta)]
    ELSE [op |-> "TryRemoveTaintedNodes", opts |-> scaleOpts(0)]

\* dispatch as it would be if a removal were clamped to the untainted nodes
\* and a revival to the room left under MaxNodes.
dispatch_clamped(delta) ==
    LET least(a, b) == IF a < b THEN a ELSE b
        room == Opts.NodeGroups[nodegroup].MaxNodes - Len(allNodes)
    IN  IF delta < 0
        THEN [op |-> "ScaleDown",
              opts |-> scaleOpts(least(-delta, Len(untaintedNodes)))]
        ELSE IF delta > 0
        THEN [op |-> "ScaleUp", opts |-> scaleOpts(least(delta, room))]
        ELSE [op |-> "TryRemoveTaintedNodes", opts |-> scaleOpts(0)]

\* The second switch: the operation invoked and its arguments.
dispatch(delta) ==
    IF delta < 0 THEN [op |-> "ScaleDown", opts |-> scaleOpts(-delta)]
    ELSE IF delta > 0 THEN [op |-> "ScaleUp", opts |-> scaleOpts(delta)]
    ELSE [op |-> "TryRemoveTaintedNodes", opts |-> scaleOpts(0)]

names(nodes) == {nodes[i].name : i \in 1..Len(nodes)}

\* The taint trackers an invoked operation can leave behind: in dry mode
\* ScaleDown adds untainted nodes, ScaleUp and TryRemoveTaintedNodes drop
\* tainted ones; outside dry mode the tracker is not touched.
trackerAfter(call) ==
    LET g == call.opts.nodeGroup
        t == taintTracker[g]
        few(S) == {X \in SUBSET S : Cardinality(X) <= call.opts.nodesDelta}
    IN  IF ~dryMode(g) THEN {t}
        ELSE IF call.op = "ScaleDown"
        THEN {t \cup X : X \in few(names(call.opts.untaintedNodes))}
        ELSE IF call.op = "ScaleUp"
        THEN {t \ X : X \in few(names(call.opts.taintedNodes))}
        ELSE {t \ X : X \in SUBSET names(call.opts.taintedNodes)}

\* -------------------------------------------------------------------- Init

\* The zero values of the totals and of the result of calcPercentUsage.
zeroTotal == [cpu |-> 0, mem |-> 0]
zeroPercent == [cpu |-> Quotient(0, 1), mem |-> Quotient(0, 1), err |-> FALSE]

\* The locals of a cycle before the cycle has assigned them.
noCycle ==
    /\ nodegroup = None
    /\ stage = "idle"
    /\ trail = <<>>
    /\ pods = <<>>
    /\ allNodes = <<>>
    /\ untaintedNodes = <<>>
    /\ taintedNodes = <<>>
    /\ request = zeroTotal
    /\ capacity = zeroTotal
    /\ percent = zeroPercent
    /\ maxPercent = 0
    /\ nodesDelta = 0
    /\ calls = <<>>
    /\ err = FALSE
    /\ emitted = {}
    /\ aborted = None

\* NewController, and the call of RunForever about to be made.
Init ==
    /\ Opts \in Configurations
    /\ taintTracker = [g \in Groups |-> {}]
    /\ stopChan = FALSE
    /\ ticker = "none"
    /\ tickerC = FALSE
    /\ runImmediately \in BOOLEAN
    /\ pc = "start"
    /\ ticks = 0
    /\ sweeps = 0
    /\ iter = {}
    /\ ran = [g \in Groups |-> 0]
    /\ failed = FALSE
    /\ noCycle

\* ---------------------------------------------------------- scaleNodeGroup

\* The cycle enters a stage.
goto(s) ==
    /\ stage' = s
    /\ trail' = Append(trail, s)

\* The cycle returns at a guard.
abort(why) ==
    /\ aborted' = why
    /\ goto("End")

\* ListPods as it would be without the return after the error is logged.
ListPods_noReturn ==
    /\ stage = "ListPods"
    /\ pods' \in PodLists \cup {<<>>}
    /\ goto("ListNodes")
    /\ \/ aborted' = "ListPods"
       \/ UNCHANGED aborted
    /\ UNCHANGED <<Opts, taintTracker, loopVars, sweepVars, nodegroup,
                   allNodes, untaintedNodes, taintedNodes, request, capacity,
                   percent, maxPercent, nodesDelta, calls, err, emitted>>

\* pods, err := nodeGroup.Pods.List()
ListPods ==
    /\ stage = "ListPods"
    /\ \/ /\ abort("ListPods")
          /\ UNCHANGED pods
       \/ /\ pods' \in PodLists
          /\ goto("ListNodes")
          /\ UNCHANGED aborted
    /\ UNCHANGED <<Opts, taintTracker, loopVars, sweepVars, nodegroup,
                   allNodes, untaintedNodes, taintedNodes, request, capacity,
                   percent, maxPercent, nodesDelta, calls, err, emitted>>

\* allNodes, err := nodeGroup.Nodes.List()
ListNodes ==
    /\ stage = "ListNodes"
    /\ \/ /\ abort("ListNodes")
          /\ UNCHANGED allNodes
       \/ /\ allNodes' \in NodeLists
          /\ goto("Partitioning")
          /\ UNCHANGED aborted
    /\ UNCHANGED <<Opts, taintTracker, loopVars, sweepVars, nodegroup, pods,
                   untaintedNodes, taintedNodes, request, capacity, percent,
                   maxPercent, nodesDelta, calls, err, emitted>>

\* Partition as it would be if the cycle went on to the aggregation without
\* the bounds guards.
Partition_skipBounds ==
    /\ stage = "Partitioning"
    /\ untaintedNodes' = filterUntainted(nodegroup, allNodes)
    /\ taintedNodes' = filterTainted(nodegroup, allNodes)
    /\ emitted' = emitted \cup {"NodeGroupNodes", "NodeGroupNodesUntainted",
                                "NodeGroupNodesTainted", "NodeGroupPods"}
    /\ goto("Aggregating")
    /\ UNCHANGED <<Opts, taintTracker, loopVars, sweepVars, nodegroup, pods,
                   allNodes, request, capacity, percent, maxPercent,
                   nodesDelta, calls, err, aborted>>

\* The filter loop and the node and pod count metrics after it.
Partition ==
    /\ stage = "Partitioning"
    /\ untaintedNodes' = filterUntainted(nodegroup, allNodes)
    /\ taintedNodes' = filterTainted(nodegroup, allNodes)
    /\ emitted' = emitted \cup {"NodeGroupNodes", "NodeGroupNodesUntainted",
                                "NodeGroupNodesTainted", "NodeGroupPods"}
    /\ goto("BoundsCheck")
    /\ UNCHANGED <<Opts, taintTracker, loopVars, sweepVars, nodegroup, pods,
                   allNodes, request, capacity, percent, maxPercent,
                   nodesDelta, calls, err, aborted>>

\* The three guards on len(allNodes).
\* BoundsCheck as it would be if a group out of its bounds had its taint
\* tracker reset.
BoundsCheck_untrack ==
    /\ stage = "BoundsCheck"
    /\ IF outOfBounds(nodegroup, allNodes)
       THEN /\ abort("BoundsCheck")
            /\ taintTracker' = [taintTracker EXCEPT ![nodegroup] = {}]
       ELSE goto("Aggregating") /\ UNCHANGED <<aborted, taintTracker>>
    /\ UNCHANGED <<Opts, loopVars, sweepVars, nodegroup, pods,
                   allNodes, untaintedNodes, taintedNodes, request, capacity,
                   percent, maxPercent, nodesDelta, calls, err, emitted>>

BoundsCheck ==
    /\ stage = "BoundsCheck"
    /\ IF outOfBounds(nodegroup, allNodes)
       THEN abort("BoundsCheck")
       ELSE goto("Aggregating") /\ UNCHANGED aborted
    /\ UNCHANGED <<Opts, taintTracker, loopVars, sweepVars, nodegroup, pods,
                   allNodes, untaintedNodes, taintedNodes, request, capacity,
                   percent, maxPercent, nodesDelta, calls, err, emitted>>

\* Aggregate as it would be if the capacity were summed over all the nodes
\* listed.
Aggregate_allNodes ==
    /\ stage = "Aggregating"
    /\ \/ /\ abort("CalculatePodsRequestsTotal")
          /\ UNCHANGED <<request, capacity, emitted>>
       \/ /\ request' = CalculatePodsRequestsTotal(pods)
          /\ abort("CalculateNodesCapacityTotal")
          /\ UNCHANGED <<capacity, emitted>>
       \/ /\ request' = CalculatePodsRequestsTotal(pods)
          /\ capacity' = CalculateNodesCapacityTotal(allNodes)
          /\ emitted' = emitted \cup {"NodeGroupCPURequest",
                 "NodeGroupMemRequest", "NodeGroupCPUCapacity",
                 "NodeGroupMemCapacity"}
          /\ goto("CalcPercent")
          /\ UNCHANGED aborted
    /\ UNCHANGED <<Opts, taintTracker, loopVars, sweepVars, nodegroup, pods,
                   allNodes, untaintedNodes, taintedNodes, percent,
                   maxPercent, nodesDelta, calls, err>>

\* The two aggregations, either of which can fail, and their metrics.
Aggregate ==
    /\ stage = "Aggregating"
    /\ \/ /\ abort("CalculatePodsRequestsTotal")
          /\ UNCHANGED <<request, capacity, emitted>>
       \/ /\ request' = CalculatePodsRequestsTotal(pods)
          /\ abort("CalculateNodesCapacityTotal")
          /\ UNCHANGED <<capacity, emitted>>
       \/ /\ request' = CalculatePodsRequestsTotal(pods)
          /\ capacity' = CalculateNodesCapacityTotal(untaintedNodes)
          /\ emitted' = emitted \cup {"NodeGroupCPURequest",
                 "NodeGroupMemRequest", "NodeGroupCPUCapacity",
                 "NodeGroupMemCapacity"}
          /\ goto("CalcPercent")
          /\ UNCHANGED aborted
    /\ UNCHANGED <<Opts, taintTracker, loopVars, sweepVars, nodegroup, pods,
                   allNodes, untaintedNodes, taintedNodes, percent,
                   maxPercent, nodesDelta, calls, err>>

\* The call of calcPercentUsage and the two percentage metrics.
CalcPercent ==
    /\ stage = "CalcPercent"
    /\ LET p == calcPercentUsage(request.cpu, request.mem,
                                 capacity.cpu, capacity.mem)
       IN  /\ percent' = p
           /\ IF p.err
              THEN abort("calcPercentUsage") /\ UNCHANGED emitted
              ELSE /\ emitted' = emitted \cup {"NodeGroupsCPUPercent",
                                               "NodeGroupsMemPercent"}
                   /\ goto("Deciding")
                   /\ UNCHANGED aborted
    /\ UNCHANGED <<Opts, taintTracker, loopVars, sweepVars, nodegroup, pods,
                   allNodes, untaintedNodes, taintedNodes, request, capacity,
                   maxPercent, nodesDelta, calls, err>>

\* maxPercent and the first switch.
Decide ==
    /\ stage = "Deciding"
    /\ maxPercent' = toInt(mathMax(percent.cpu, percent.mem))
    /\ nodesDelta' = decideDelta(Opts.NodeGroups[nodegroup], maxPercent')
    /\ goto("Dispatching")
    /\ UNCHANGED <<Opts, taintTracker, loopVars, sweepVars, nodegroup, pods,
                   allNodes, untaintedNodes, taintedNodes, request, capacity,
                   percent, calls, err, emitted, aborted>>

\* The second switch: one call of ScaleDown, ScaleUp or
\* TryRemoveTaintedNodes, which can return an error and is then only logged.
Dispatch ==
    /\ stage = "Dispatching"
    /\ LET call == dispatch(nodesDelta)
       IN  /\ calls' = Append(calls, call)
           /\ \E t \in trackerAfter(call) :
                 taintTracker' = [taintTracker EXCEPT ![nodegroup] = t]
    /\ err' \in BOOLEAN
    /\ goto("Reporting")
    /\ UNCHANGED <<Opts, loopVars, sweepVars, nodegroup, pods, allNodes,
                   untaintedNodes, taintedNodes, request, capacity, percent,
                   maxPercent, nodesDelta, emitted, aborted>>

\* Report as it would be if an operation that failed were tried again.
Report_retry ==
    /\ stage = "Reporting"
    /\ goto(IF err THEN "Dispatching" ELSE "End")
    /\ UNCHANGED <<Opts, taintTracker, loopVars, sweepVars, nodegroup, pods,
                   allNodes, untaintedNodes, taintedNodes, request, capacity,
                   percent, maxPercent, nodesDelta, calls, err, emitted,
                   aborted>>

\* The closing log line of the cycle.
Report ==
    /\ stage = "Reporting"
    /\ goto("End")
    /\ UNCHANGED <<Opts, taintTracker, loopVars, sweepVars, nodegroup, pods,
                   allNodes, untaintedNodes, taintedNodes, request, capacity,
                   percent, maxPercent, nodesDelta, calls, err, emitted,
                   aborted>>

\* scaleNodeGroup returns to the range loop of RunOnce; its locals are gone.
Return ==
    /\ stage = "End"
    /\ nodegroup' = None
    /\ stage' = "idle"
    /\ trail' = <<>>
    /\ pods' = <<>>
    /\ allNodes' = <<>>
    /\ untaintedNodes' = <<>>
    /\ taintedNodes' = <<>>
    /\ request' = zeroTotal
    /\ capacity' = zeroTotal
    /\ percent' = zeroPercent
    /\ maxPercent' = 0
    /\ nodesDelta' = 0
    /\ calls' = <<>>
    /\ err' = FALSE
    /\ emitted' = {}
    /\ aborted' = None
    /\ ran' = [ran EXCEPT ![nodegroup] = @ + 1]
    /\ failed' = (failed \/ aborted # None \/ err)
    /\ UNCHANGED <<Opts, taintTracker, loopVars, iter>>

\* ----------------------------------------------------------------- RunOnce

sweeping == pc \in {"first", "main"}

\* The entry of RunOnce: the range loop over c.nodeGroups begins.
startRunOnce ==
    /\ iter' = Groups
    /\ ran' = [g \in Groups |-> 0]
    /\ failed' = FALSE
    /\ sweeps' = sweeps + 1

\* One iteration of the range loop: scaleNodeGroup is called for a group the
\* loop has not reached yet, in the order the map yields.
RangeNext ==
    /\ sweeping
    /\ stage = "idle"
    /\ \E g \in iter :
          /\ iter' = iter \ {g}
          /\ nodegroup' = g
    /\ goto("ListPods")
    /\ UNCHANGED <<Opts, taintTracker, loopVars, ran, failed, pods, allNodes,
                   untaintedNodes, taintedNodes, request, capacity, percent,
                   maxPercent, nodesDelta, calls, err, emitted, aborted>>

\* RunOnceReturn as it would be if the range loop ended at the first cycle
\* that failed.
RunOnceReturn_early ==
    /\ pc \in {"first", "main"}
    /\ stage = "idle"
    /\ iter = {} \/ failed
    /\ ticker' = IF pc = "first" THEN "running" ELSE ticker
    /\ pc' = "select"
    /\ UNCHANGED <<Opts, taintTracker, stopChan, tickerC, runImmediately,
                   ticks, sweeps, sweepVars, cycleVars>>

\* RunOnce returns; after the first sweep RunForever creates the ticker.
RunOnceReturn ==
    /\ sweeping
    /\ stage = "idle"
    /\ iter = {}
    /\ ticker' = IF pc = "first" THEN "running" ELSE ticker
    /\ pc' = "select"
    /\ UNCHANGED <<Opts, taintTracker, stopChan, tickerC, runImmediately,
                   ticks, sweeps, sweepVars, cycleVars>>

\* -------------------------------------------------------------- RunForever

\* Start as it would be if the first sweep were run whatever the argument.
Start_always ==
    /\ pc = "start"
    /\ pc' = "first"
    /\ startRunOnce
    /\ UNCHANGED <<Opts, taintTracker, stopChan, ticker, tickerC,
                   runImmediately, ticks, cycleVars>>

\* The entry of RunForever: the first sweep when asked for, the ticker
\* otherwise.
Start ==
    /\ pc = "start"
    /\ IF runImmediately
       THEN /\ pc' = "first"
            /\ startRunOnce
            /\ UNCHANGED ticker
       ELSE /\ pc' = "select"
            /\ ticker' = "running"
            /\ UNCHANGED <<sweeps, sweepVars>>
    /\ UNCHANGED <<Opts, taintTracker, stopChan, tickerC, runImmediately,
                   ticks, cycleVars>>

\* case <-ticker.C: a sweep.
SelectTicker ==
    /\ pc = "select"
    /\ tickerC
    /\ ticks < MaxTicks
    /\ tickerC' = FALSE
    /\ ticks' = ticks + 1
    /\ pc' = "main"
    /\ startRunOnce
    /\ UNCHANGED <<Opts, taintTracker, stopChan, ticker, runImmediately,
                   cycleVars>>

\* case <-ticker.C with no end to the firings taken: the counters stay at
\* their bound once they have reached it.
SelectTickerLive ==
    /\ pc = "select"
    /\ tickerC
    /\ tickerC' = FALSE
    /\ ticks' = IF ticks < MaxTicks THEN ticks + 1 ELSE ticks
    /\ pc' = "main"
    /\ iter' = Groups
    /\ ran' = [g \in Groups |-> 0]
    /\ failed' = FALSE
    /\ sweeps' = IF ticks < MaxTicks THEN sweeps + 1 ELSE sweeps
    /\ UNCHANGED <<Opts, taintTracker, stopChan, ticker, runImmediately,
                   cycleVars>>

\* SelectStop as it would be if the select took the stop case only when the
\* ticker channel is empty.
SelectStop_tickerFirst ==
    /\ pc = "select"
    /\ stopChan
    /\ ~tickerC
    /\ ticker' = "stopped"
    /\ pc' = "done"
    /\ UNCHANGED <<Opts, taintTracker, stopChan, tickerC, runImmediately,
                   ticks, sweeps, sweepVars, cycleVars>>

\* SelectStop as it would be if the stop channel were also looked at while a
\* sweep runs.
SelectStop_midSweep ==
    /\ pc \in {"select", "first", "main"}
    /\ stopChan
    /\ ticker' = "stopped"
    /\ pc' = "done"
    /\ UNCHANGED <<Opts, taintTracker, stopChan, tickerC, runImmediately,
                   ticks, sweeps, sweepVars, cycleVars>>

\* case <-c.stopChan: the ticker is stopped and RunForever returns.
SelectStop ==
    /\ pc = "select"
    /\ stopChan
    /\ ticker' = "stopped"
    /\ pc' = "done"
    /\ UNCHANGED <<Opts, taintTracker, stopChan, tickerC, runImmediately,
                   ticks, sweeps, sweepVars, cycleVars>>

\* ------------------------------------------------------------- environment

\* The running ticker puts a firing in its channel, which holds one.
TickerFires ==
    /\ ticker = "running"
    /\ ~tickerC
    /\ tickerC' = TRUE
    /\ UNCHANGED <<Opts, taintTracker, stopChan, ticker, runImmediately, pc,
                   ticks, sweeps, sweepVars, cycleVars>>

\* The owner of the stop channel closes it.
CloseStop ==
    /\ ~stopChan
    /\ stopChan' = TRUE
    /\ UNCHANGED <<Opts, taintTracker, ticker, tickerC, runImmediately, pc,
                   ticks, sweeps, sweepVars, cycleVars>>

\* ----------------------------------------------------------- specification

Next ==
    \/ Start
    \/ SelectTicker
    \/ SelectStop
    \/ RangeNext
    \/ RunOnceReturn
    \/ ListPods
    \/ ListNodes
    \/ Partition
    \/ BoundsCheck
    \/ Aggregate
    \/ CalcPercent
    \/ Decide
    \/ Dispatch
    \/ Report
    \/ Return
    \/ TickerFires
    \/ CloseStop

Spec == Init /\ [][Next]_vars

\* The steps of scaleNodeGroup.
Cycle ==
    \/ ListPods
    \/ ListNodes
    \/ Partition
    \/ BoundsCheck
    \/ Aggregate
    \/ CalcPercent
    \/ Decide
    \/ Dispatch
    \/ Report
    \/ Return

\* RunForever with a ticker that never runs out of firings.
NextLive ==
    \/ Start
    \/ SelectTickerLive
    \/ SelectStop
    \/ RangeNext
    \/ RunOnceReturn
    \/ ListPods
    \/ ListNodes
    \/ Partition
    \/ BoundsCheck
    \/ Aggregate
    \/ CalcPercent
    \/ Decide
    \/ Dispatch
    \/ Report
    \/ Return
    \/ TickerFires
    \/ CloseStop

\* The goroutine of RunForever is scheduled as long as it can take a step, so
\* every call returns and every sweep ends; the select chooses at random
\* among the cases that are ready, so a stop case that is ready at every
\* select is chosen in the end.  Nothing makes the ticker fire or the stop
\* channel close.
Fairness ==
    /\ WF_vars(Start)
    /\ WF_vars(RangeNext)
    /\ WF_vars(RunOnceReturn)
    /\ WF_vars(Cycle)
    /\ SF_vars(SelectStop)

SpecLive == Init /\ [][NextLive]_vars /\ Fairness

\* ------------------------------------------------------------------ claims

\* The elements of a list.
range(s) == {s[i] : i \in 1..Len(s)}

\* The stages a cycle has entered.
entered == range(trail)

\* The options of the group whose cycle runs.
groupOpts == Opts.NodeGroups[nodegroup]

mutations == {"ScaleDown", "ScaleUp", "TryRemoveTaintedNodes"}

percentMetrics == {"NodeGroupsCPUPercent", "NodeGroupsMemPercent"}

\* C1: a cycle whose node list is empty, shorter than MinNodes or longer than
\* MaxNodes ends at the bounds guard: it invokes no mutation operation,
\* aggregates nothing and neither computes nor emits a percentage.
C1_BoundsAbort ==
    ("Partitioning" \in entered
        /\ \/ Len(allNodes) = 0
           \/ Len(allNodes) < groupOpts.MinNodes
           \/ Len(allNodes) > groupOpts.MaxNodes)
    => /\ calls = <<>>
       /\ entered \cap {"Aggregating", "CalcPercent", "Deciding",
                        "Dispatching", "Reporting"} = {}
       /\ request = zeroTotal /\ capacity = zeroTotal
       /\ percent = zeroPercent
       /\ emitted \cap percentMetrics = {}
       /\ emitted \cap {"NodeGroupCPURequest", "NodeGroupMemRequest",
                        "NodeGroupCPUCapacity", "NodeGroupMemCapacity"} = {}
       /\ stage = "End" => aborted = "BoundsCheck"

\* A cycle that listed more nodes than MaxNodes has returned.
C1_Witness ==
    /\ stage = "End"
    /\ "Partitioning" \in entered
    /\ Len(allNodes) > groupOpts.MaxNodes
    /\ Len(pods) > 0

\* C2: whatever the three thresholds are, the delta is that of the first
\* case that matches, in the order fast scale-down, slow scale-down, scale-up,
\* none; exactly one of the four cases is selected.
C2_FirstMatch ==
    "Dispatching" \in entered
    => LET u == maxPercent
           lower == groupOpts.TaintLowerCapacityThreshholdPercent
           upper == groupOpts.TaintUpperCapacityThreshholdPercent
           up == groupOpts.ScaleUpThreshholdPercent
       IN  /\ u < lower => nodesDelta = -groupOpts.FastNodeRemovalRate
           /\ (u >= lower /\ u < upper)
                 => nodesDelta = -groupOpts.SlowNodeRemovalRate
           /\ (u >= lower /\ u >= upper /\ u > up)
                 => nodesDelta = groupOpts.FastNodeRevivalRate
           /\ (u >= lower /\ u >= upper /\ u <= up) => nodesDelta = 0

\* With thresholds that are not monotonic, a usage that is below the lower
\* taint threshold and above the scale-up threshold was decided on.
C2_Witness ==
    /\ "Dispatching" \in entered
    /\ groupOpts.TaintLowerCapacityThreshholdPercent
          > groupOpts.TaintUpperCapacityThreshholdPercent
    /\ maxPercent < groupOpts.TaintLowerCapacityThreshholdPercent
    /\ maxPercent > groupOpts.ScaleUpThreshholdPercent
    /\ nodesDelta = -groupOpts.FastNodeRemovalRate

\* C3: the second switch goes by the sign of the delta: one call, of ScaleDown
\* with the delta's absolute value when it is negative, of ScaleUp with the
\* delta when it is positive, of TryRemoveTaintedNodes when it is zero, and
\* the call is handed the nodes, the two partitions, the pods and the usage
\* of the cycle.
C3_DispatchBySign ==
    "Reporting" \in entered
    => /\ Len(calls) = 1
       /\ nodesDelta < 0 => /\ calls[1].op = "ScaleDown"
                            /\ calls[1].opts.nodesDelta = -nodesDelta
                            /\ calls[1].opts.nodesDelta > 0
       /\ nodesDelta > 0 => /\ calls[1].op = "ScaleUp"
                            /\ calls[1].opts.nodesDelta = nodesDelta
       /\ nodesDelta = 0 => calls[1].op = "TryRemoveTaintedNodes"
       /\ calls[1].opts.nodes = allNodes
       /\ calls[1].opts.taintedNodes = taintedNodes
       /\ calls[1].opts.untaintedNodes = untaintedNodes
       /\ calls[1].opts.pods = pods
       /\ calls[1].opts.clusterUsagePercent = maxPercent
       /\ calls[1].opts.nodeGroup = nodegroup

\* ScaleDown has been invoked for a negative delta, with nodes to pass on.
C3_Witness ==
    /\ "Reporting" \in entered
    /\ nodesDelta < 0
    /\ calls[1].op = "ScaleDown"
    /\ Len(taintedNodes) > 0
    /\ Len(untaintedNodes) > 0

\* C4 as stated: a usage from the upper taint threshold to the scale-up
\* threshold, both included, gives a delta of zero and only
\* TryRemoveTaintedNodes.
C4_Original ==
    ("Dispatching" \in entered
        /\ groupOpts.TaintUpperCapacityThreshholdPercent <= maxPercent
        /\ maxPercent <= groupOpts.ScaleUpThreshholdPercent)
    => /\ nodesDelta = 0
       /\ \A i \in 1..Len(calls) : calls[i].op = "TryRemoveTaintedNodes"

\* C4, amended: a usage from the upper taint threshold to the scale-up
\* threshold, both included, that is not below the lower taint threshold
\* gives a delta of zero and only TryRemoveTaintedNodes.
C4_SteadyState ==
    ("Dispatching" \in entered
        /\ groupOpts.TaintLowerCapacityThreshholdPercent <= maxPercent
        /\ groupOpts.TaintUpperCapacityThreshholdPercent <= maxPercent
        /\ maxPercent <= groupOpts.ScaleUpThreshholdPercent)
    => /\ nodesDelta = 0
       /\ \A i \in 1..Len(calls) : calls[i].op = "TryRemoveTaintedNodes"
       /\ "Reporting" \in entered => Len(calls) = 1

\* TryRemoveTaintedNodes has been invoked for a usage equal to the upper
\* taint threshold.
C4_Witness ==
    /\ "Reporting" \in entered
    /\ maxPercent = groupOpts.TaintUpperCapacityThreshholdPercent
    /\ groupOpts.TaintLowerCapacityThreshholdPercent <= maxPercent
    /\ maxPercent <= groupOpts.ScaleUpThreshholdPercent
    /\ calls[1].op = "TryRemoveTaintedNodes"

\* C5: a cycle invokes at most one mutation operation; one that passes all
\* guards invokes exactly one, once, also when the operation returns an error;
\* one that ends at a guard invokes none.
C5_OneMutation ==
    /\ Len(calls) <= 1
    /\ \A i \in 1..Len(calls) : calls[i].op \in mutations
    /\ "Reporting" \in entered => Len(calls) = 1
    /\ (stage = "End" /\ aborted = None) => Len(calls) = 1
    /\ err => Len(calls) = 1
    /\ aborted # None => calls = <<>>

\* A cycle whose operation returned an error has returned.
C5_Witness ==
    /\ stage = "End"
    /\ err
    /\ Len(calls) = 1

\* C6: when the summed cpu capacity or the summed memory capacity of the
\* untainted nodes is zero, calcPercentUsage returns an error and zero
\* percentages, the cycle returns there and invokes no mutation operation.
C6_ZeroCapacity ==
    ("CalcPercent" \in entered /\ (capacity.cpu = 0 \/ capacity.mem = 0))
    => /\ calls = <<>>
       /\ stage \in {"CalcPercent", "End"}
       /\ stage = "End" => /\ percent.err
                           /\ toInt(percent.cpu) = 0
                           /\ toInt(percent.mem) = 0
                           /\ aborted = "calcPercentUsage"
                           /\ emitted \cap percentMetrics = {}

\* A cycle with untainted nodes that have cpu capacity and no memory capacity
\* has returned.
C6_Witness ==
    /\ stage = "End"
    /\ "CalcPercent" \in entered
    /\ capacity.cpu > 0
    /\ capacity.mem = 0

\* C7: after the filter loop every listed node is in exactly one of
\* taintedNodes and untaintedNodes, the two hold nothing else, and their
\* lengths add up to the length of the list.
C7_Partition ==
    "BoundsCheck" \in entered
    => /\ range(taintedNodes) \cap range(untaintedNodes) = {}
       /\ range(taintedNodes) \cup range(untaintedNodes) = range(allNodes)
       /\ Len(taintedNodes) + Len(untaintedNodes) = Len(allNodes)

\* The filter loop has put one node in each list.
C7_Witness ==
    /\ "BoundsCheck" \in entered
    /\ Len(taintedNodes) = 1
    /\ Len(untaintedNodes) = 1

\* C8: when the controller or the group is in dry mode, the tainted nodes are
\* those whose name is in the group's taintTracker, whatever taint they
\* carry; otherwise they are those that carry the to-be-removed taint,
\* whatever the taintTracker holds.  (The tracker is read before the cycle's
\* operation can change it.)
C8_TaintBackend ==
    ("BoundsCheck" \in entered /\ "Reporting" \notin entered)
    => \A node \in range(allNodes) :
          (node \in range(taintedNodes))
             <=> IF Opts.DryMode \/ groupOpts.DryMode
                 THEN node.name \in taintTracker[nodegroup]
                 ELSE node.toBeRemoved

\* In a cycle run in dry mode because of the controller's flag alone, a node
\* that carries the taint is untainted and one that does not is tainted.
C8_Witness ==
    /\ "BoundsCheck" \in entered
    /\ "Reporting" \notin entered
    /\ Opts.DryMode
    /\ ~groupOpts.DryMode
    /\ \E node \in range(untaintedNodes) : node.toBeRemoved
    /\ \E node \in range(taintedNodes) : ~node.toBeRemoved

\* C9: in a sweep the cycle of a group runs at most once, one cycle at a
\* time, and when RunOnce has returned the cycle of every group has run
\* exactly once, whether or not a cycle of the sweep ended at a guard or with
\* an error of its operation.
C9_EveryGroupOnce ==
    /\ \A g \in Groups : ran[g] <= 1
    /\ stage # "idle" => /\ nodegroup \in Groups
                         /\ nodegroup \notin iter
                         /\ ran[nodegroup] = 0
    /\ (pc \in {"first", "main"}) =>
          \A g \in Groups : ran[g] = 1 <=> (g \notin iter /\ g # nodegroup)
    /\ (pc \in {"select", "done"} /\ sweeps > 0) =>
          \A g \in Groups : ran[g] = 1

\* RunOnce has returned from a sweep in which a cycle failed.
C9_Witness ==
    /\ pc = "select"
    /\ sweeps > 0
    /\ failed
    /\ \A g \in Groups : ran[g] = 1

\* C10 as stated: once the stop channel is closed while RunForever waits in
\* the select, RunForever starts no new sweep, also when a firing of the
\* ticker is waiting at that moment.
C10_NoSweepAfterStop ==
    [][(pc = "select" /\ stopChan) => pc' # "main"]_vars

\* C11: the stop channel is looked at only between sweeps.  While a sweep
\* runs with the channel closed, or being closed, RunForever does not return,
\* a cycle is left only at its end, and the sweep ends only when the cycle of
\* every group has run; so RunForever returns with no cycle cut short or
\* skipped.
C11_StopBetweenSweeps ==
    [][(pc \in {"first", "main"} /\ stopChan')
          => /\ pc' \in {pc, "select"}
             /\ pc' = "select" => (iter = {} /\ \A g \in Groups : ran[g] = 1)
             /\ (stage # "idle" /\ stage' = "idle") => stage = "End"
             /\ iter' \subseteq iter
             /\ iter' # iter => /\ stage' = "ListPods"
                                /\ iter' = iter \ {nodegroup'}]_vars

\* With the stop channel closed, a cycle is about to invoke its operation
\* while the cycle of the other group is still to come.
C11_Witness ==
    /\ pc \in {"first", "main"}
    /\ stopChan
    /\ stage = "Dispatching"
    /\ iter # {}

\* C12: RunForever starts one sweep before it first waits when
\* runImmediately is true and none when it is false; each firing of the
\* ticker it takes starts one sweep, which has returned when RunForever waits
\* again.  So the sweeps started are the first one, if any, plus the firings
\* taken.
C12_SweepCount ==
    /\ sweeps = (IF runImmediately /\ pc # "start" THEN 1 ELSE 0) + ticks
    /\ pc = "first" => (runImmediately /\ ticks = 0 /\ ticker = "none")
    /\ pc = "main" => ticks > 0
    /\ pc \in {"start", "select", "done"}
          => (stage = "idle" /\ iter = {} /\ nodegroup = None)
    /\ (pc \in {"select", "done"} /\ sweeps > 0) => \A g \in Groups : ran[g] = 1

\* RunForever(true) waits again after the sweep of a firing.
C12_Witness ==
    /\ runImmediately
    /\ pc = "select"
    /\ ticks = 1
    /\ sweeps = 2

\* The larger of two integers.
maxOf(a, b) == IF a < b THEN b ELSE a

\* The sum of the cpu (k = 1) or memory (k = 2) capacities of the nodes of a
\* list.
RECURSIVE capacityOf(_, _)
capacityOf(nodes, k) ==
    IF nodes = <<>> THEN 0 ELSE Head(nodes).cap[k] + capacityOf(Tail(nodes), k)

\* The sum of the cpu (k = 1) or memory (k = 2) requests of the pods of a list.
RECURSIVE requestOf(_, _)
requestOf(ps, k) ==
    IF ps = <<>> THEN 0 ELSE Head(ps)[k] + requestOf(Tail(ps), k)

\* C13 as stated: the usage the policy goes by is the integer part of the
\* larger of 100 * cpu requested / cpu capacity and 100 * memory requested /
\* memory capacity, with the requests summed over all pods and the capacities
\* over the untainted nodes only, and it is not negative.
C13_ExactUsage ==
    "Dispatching" \in entered
    => LET cpuR == requestOf(pods, 1)
           memR == requestOf(pods, 2)
           cpuA == capacityOf(untaintedNodes, 1)
           memA == capacityOf(untaintedNodes, 2)
       IN  /\ cpuA > 0 /\ memA > 0
           /\ maxPercent = maxOf((100 * cpuR) \div cpuA, (100 * memR) \div memA)
           /\ maxPercent >= 0

\* C14: a cycle whose pod listing fails returns before it lists nodes, and
\* one whose node listing fails returns before it partitions; neither checks
\* the bounds, aggregates, sets a metric or invokes a mutation operation.
C14_ListingFailure ==
    /\ aborted = "ListPods"
          => /\ trail = <<"ListPods", "End">>
             /\ pods = <<>> /\ allNodes = <<>>
    /\ aborted = "ListNodes" => trail = <<"ListPods", "ListNodes", "End">>
    /\ aborted \in {"ListPods", "ListNodes"}
          => /\ untaintedNodes = <<>> /\ taintedNodes = <<>>
             /\ request = zeroTotal /\ capacity = zeroTotal
             /\ percent = zeroPercent
             /\ calls = <<>>
             /\ emitted = {}

\* A cycle whose pod listing failed has returned.
C14_Witness ==
    /\ stage = "End"
    /\ aborted = "ListPods"

C15_WitnessUp ==
    /\ Len(calls) = 1
    /\ calls[1].op = "ScaleUp"
    /\ Len(allNodes) + calls[1].opts.nodesDelta > groupOpts.MaxNodes

\* The stages of a cycle in the order of the code: Listing is the listing of
\* pods and then of nodes, and the percentages are computed between the
\* aggregation and the decision.
stageOrder ==
    <<"ListPods", "ListNodes", "Partitioning", "BoundsCheck", "Aggregating",
      "CalcPercent", "Deciding", "Dispatching", "Reporting">>

\* The stages entered before the return.
passed == IF stage = "End" THEN SubSeq(trail, 1, Len(trail) - 1) ELSE trail

\* A cycle is one pass through the stages in order, left at a guard or after
\* the last stage.
singlePass ==
    /\ stage = "idle" <=> trail = <<>>
    /\ stage # "idle" => trail[Len(trail)] = stage
    /\ Len(passed) <= Len(stageOrder)
    /\ passed = SubSeq(stageOrder, 1, Len(passed))
    /\ aborted # None => stage = "End"
    /\ (stage = "End" /\ aborted = None) => passed = stageOrder

countMetrics ==
    {"NodeGroupNodes", "NodeGroupNodesUntainted", "NodeGroupNodesTainted",
     "NodeGroupPods"}

totalMetrics ==
    {"NodeGroupCPURequest", "NodeGroupMemRequest", "NodeGroupCPUCapacity",
     "NodeGroupMemCapacity"}

\* C16 as stated: a cycle is one pass through the stages in order, ended by
\* any guard that fails, and metrics are set only in the Reporting stage,
\* after the dispatch.
C16_Original ==
    /\ singlePass
    /\ emitted # {} => "Reporting" \in entered

\* C16, amended: a cycle is one pass through the stages in order, ended by
\* any guard that fails; the count metrics are set at the end of the
\* partitioning, the request and capacity metrics at the end of the
\* aggregation and the percentage metrics once the percentages are computed,
\* all of them before the dispatch, and none in the Reporting stage.
C16_SinglePass ==
    /\ singlePass
    /\ emitted = (IF "BoundsCheck" \in entered THEN countMetrics ELSE {})
                 \cup (IF "CalcPercent" \in entered THEN totalMetrics ELSE {})
                 \cup (IF "Deciding" \in entered THEN percentMetrics ELSE {})

\* A cycle has passed every stage and returned.
C16_Witness ==
    /\ stage = "End"
    /\ aborted = None
    /\ Len(trail) = Len(stageOrder) + 1
    /\ emitted = countMetrics \cup totalMetrics \cup percentMetrics

\* C17: the configuration and the node-group map never change, and a taint
\* tracker changes only in the step that invokes the one mutation operation
\* of a cycle, and then only that of the cycle's group; a cycle that has
\* returned at a guard has invoked no operation, so it has left every taint
\* tracker as it was.
C17_FrameEffect ==
    [][/\ Opts' = Opts
       /\ DOMAIN taintTracker' = Groups
       /\ taintTracker' # taintTracker
             => /\ stage = "Dispatching"
                /\ stage' = "Reporting"
                /\ Len(calls') = Len(calls) + 1
                /\ \A g \in Groups \ {nodegroup} :
                      taintTracker'[g] = taintTracker[g]
       /\ aborted' # None
             => /\ calls' = <<>>
                /\ "Dispatching" \notin range(trail')]_vars

\* A cycle returns at the bounds guard for a group whose taint tracker an
\* earlier cycle has filled.
C17_Witness ==
    /\ stage = "End"
    /\ aborted = "BoundsCheck"
    /\ taintTracker[nodegroup] # {}

\* The cycle has passed the bounds guard and every node listed is tainted.
fullyTainted ==
    /\ "Aggregating" \in entered
    /\ ~outOfBounds(nodegroup, allNodes)
    /\ untaintedNodes = <<>>

\* C18 as stated: a cycle within bounds whose nodes are all tainted returns
\* at the percentage computation and invokes no mutation operation.
C18_Original ==
    (fullyTainted /\ stage = "End")
        => (aborted = "calcPercentUsage" /\ calls = <<>>)

\* C18, amended: a cycle within bounds whose nodes are all tainted has zero
\* capacity and invokes no mutation operation, whatever the pods request and
\* in every sweep; it returns at the aggregation when that fails and at the
\* percentage computation otherwise, and never reaches the decision.
C18_FullyTainted ==
    fullyTainted
        => /\ calls = <<>>
           /\ capacity = zeroTotal
           /\ "Deciding" \notin entered
           /\ stage = "End"
                 => aborted \in IF "CalcPercent" \in entered
                                THEN {"calcPercentUsage"}
                                ELSE {"CalculatePodsRequestsTotal",
                                      "CalculateNodesCapacityTotal"}

\* In a second sweep the group that the first sweep tainted whole returns at
\* the percentage computation while its pod requests resources.
C18_Witness ==
    /\ stage = "End"
    /\ aborted = "calcPercentUsage"
    /\ fullyTainted
    /\ dryMode(nodegroup)
    /\ Len(taintedNodes) = 2
    /\ request.cpu > 0
    /\ sweeps = 2

\* The rate of the case the first switch selects for a usage, and -1 when it
\* selects none.
selectedRate(o, u) ==
    IF u < o.TaintLowerCapacityThreshholdPercent THEN o.FastNodeRemovalRate
    ELSE IF u < o.TaintUpperCapacityThreshholdPercent
    THEN o.SlowNodeRemovalRate
    ELSE IF u > o.ScaleUpThreshholdPercent THEN o.FastNodeRevivalRate
    ELSE -1

\* C19: with rates that are not negative, ScaleUp is invoked only at a usage
\* above the scale-up threshold and at or above both taint thresholds,
\* ScaleDown only at a usage below one of the taint thresholds, and a
\* selected case whose rate is 0 has TryRemoveTaintedNodes invoked instead.
C19_DirectionAgrees ==
    "Reporting" \in entered
    => LET u == calls[1].opts.clusterUsagePercent
           o == groupOpts
       IN  /\ u = maxPercent
           /\ calls[1].op = "ScaleUp"
                 => /\ u > o.ScaleUpThreshholdPercent
                    /\ u >= o.TaintLowerCapacityThreshholdPercent
                    /\ u >= o.TaintUpperCapacityThreshholdPercent
           /\ calls[1].op = "ScaleDown"
                 => \/ u < o.TaintLowerCapacityThreshholdPercent
                    \/ u < o.TaintUpperCapacityThreshholdPercent
           /\ selectedRate(o, u) = 0
                 => calls[1].op = "TryRemoveTaintedNodes"

\* The slow scale-down case is selected with a rate of 0 and
\* TryRemoveTaintedNodes is invoked.
C19_Witness ==
    /\ "Reporting" \in entered
    /\ maxPercent >= groupOpts.TaintLowerCapacityThreshholdPercent
    /\ maxPercent < groupOpts.TaintUpperCapacityThreshholdPercent
    /\ groupOpts.SlowNodeRemovalRate = 0
    /\ calls[1].op = "TryRemoveTaintedNodes"

\* C20: when every sweep ends and the select is fair to its ready cases,
\* RunForever returns once the stop channel is closed, however often the
\* ticker fires.
C20_StopReturns == stopChan ~> pc = "done"

\* RunForever has returned with a firing left in the ticker channel, after
\* taking as many firings as are counted.
C20_Witness ==
    /\ pc = "done"
    /\ stopChan
    /\ tickerC
    /\ ticks = MaxTicks

====
